---- MODULE Spec2Model ----
(***************************************************************************)
(* Model of kpi/serializers/v2/service_usage.py: the two usage serializers *)
(* (AssetUsageSerializer, ServiceUsageSerializer), the billing-period      *)
(* window resolution and the aggregate queries.                            *)
(*                                                                         *)
(* A Python object is a function from attribute names to values, so that   *)
(* hasattr(obj, name) is  name \in DOMAIN obj  and reading an attribute    *)
(* that was never assigned raises AttributeError.  A method is an operator *)
(* returning [exc, val]: exc is "none" or the name of the exception raised.*)
(***************************************************************************)
EXTENDS Integers, FiniteSets, Sequences, TLC

VARIABLES
    today,                        \* the calendar date (timezone.now().date())
    elapsed,                      \* days passed since the module was imported
    AssetUsageSerializer__now,    \* class attribute AssetUsageSerializer._now
    ServiceUsageSerializer__now,  \* class attribute ServiceUsageSerializer._now
    assets,                       \* Asset table
    daily_counters,               \* ReadOnlyKobocatDailyXFormSubmissionCounter table
    nlp_counters,                 \* NLPUsageCounter table
    self,                         \* the ServiceUsageSerializer instance of the latest call
    outcome,                      \* "none", "ok" or the exception the latest call raised
    response                      \* what the latest call returned, and when it was made

vars == << today, elapsed, AssetUsageSerializer__now, ServiceUsageSerializer__now,
           assets, daily_counters, nlp_counters, self, outcome, response >>

----------------------------------------------------------------------------
(* Bounds *)

\* Last calendar year of the dates the window resolver is applied to.
MaxYear == 2025

\* How many times the calendar date advances after the module is imported.
MaxDaysElapsed == 2

\* Years of the resolver's inputs: a leap year first, then ordinary years.
Years == 2024..MaxYear

SampleMonths == {1, 2, 3, 12}

SampleDays == {1, 15, 20, 25, 29, 31}

----------------------------------------------------------------------------
(* datetime.date *)

Date(y, m, d) == [year |-> y, month |-> m, day |-> d]

\* Python's None where a date is expected.
NoDate == Date(0, 0, 0)

IsLeap(y) == (y % 4 = 0 /\ y % 100 # 0) \/ y % 400 = 0

DaysInMonth(y, m) ==
    IF m = 2 THEN (IF IsLeap(y) THEN 29 ELSE 28)
    ELSE IF m \in {4, 6, 9, 11} THEN 30
    ELSE 31

IsValidDate(y, m, d) ==
    /\ y >= 1
    /\ m \in 1..12
    /\ d >= 1
    /\ d <= DaysInMonth(y, m)

DateLT(a, b) ==
    \/ a.year < b.year
    \/ a.year = b.year /\ a.month < b.month
    \/ a.year = b.year /\ a.month = b.month /\ a.day < b.day

DateLE(a, b) == a = b \/ DateLT(a, b)

\* a <= d <= b, the SQL BETWEEN of a date__range lookup
DateBetween(d, a, b) == DateLE(a, d) /\ DateLE(d, b)

Ok(v) == [exc |-> "none", val |-> v]

RaiseDate(e) == [exc |-> e, val |-> NoDate]

\* date.replace(year=y, month=m, day=d): ValueError when there is no such day
date_replace(y, m, d) ==
    IF IsValidDate(y, m, d) THEN Ok(Date(y, m, d)) ELSE RaiseDate("ValueError")

\* the day after d
NextDay(d) ==
    IF d.day < DaysInMonth(d.year, d.month) THEN Date(d.year, d.month, d.day + 1)
    ELSE IF d.month < 12 THEN Date(d.year, d.month + 1, 1)
    ELSE Date(d.year + 1, 1, 1)

----------------------------------------------------------------------------
(* Python objects *)

hasattr(obj, name) == name \in DOMAIN obj

\* obj with attribute name set to value
setattr(obj, name, value) ==
    [a \in DOMAIN obj \cup {name} |-> IF a = name THEN value ELSE obj[a]]

\* The empty dict {}.
EmptyDict == << >>

----------------------------------------------------------------------------
(* ServiceUsageSerializer: construction and subscription attributes *)

\* ServiceUsageSerializer.__init__ up to the call of _get_per_asset_usage; the
\* class attribute _now is read through the instance.
new_ServiceUsageSerializer(now) ==
    [ _now                    |-> now,
      _total_nlp_usage        |-> EmptyDict,
      _total_storage_bytes    |-> 0,
      _total_submission_count |-> EmptyDict,
      _current_month_start    |-> NoDate,
      _current_year_start     |-> NoDate ]

\* A djstripe Subscription row, reduced to what the serializer reads.
Subscription(org, status, interval, anchor, period_start) ==
    [ organization         |-> org,
      status               |-> status,
      interval             |-> interval,
      billing_cycle_anchor |-> anchor,
      current_period_start |-> period_start ]

\* "if subscription:" and the three assignments under it
store_subscription(s, subscription) ==
    setattr(setattr(setattr(s,
        "_anchor_date", subscription.billing_cycle_anchor),
        "_period_start", subscription.current_period_start),
        "_subscription_interval", subscription.interval)

----------------------------------------------------------------------------
(* Billing period windows *)

\* Faulty variant: the no-subscription branch returns _now itself.
_get_current_month_start_date_keeps_day(s) ==
    Ok(s._now)

_get_current_month_start_date(s) ==
    IF ~hasattr(s, "anchor_date")
    THEN \* No subscription info, just use the first day of current month
         date_replace(s._now.year, s._now.month, 1)
    ELSE IF ~hasattr(s, "_subscription_interval") THEN RaiseDate("AttributeError")
    ELSE IF s._subscription_interval = "month"
    THEN IF hasattr(s, "_current_period")
         THEN Ok(s._current_period)
         ELSE RaiseDate("AttributeError")
    ELSE IF ~hasattr(s, "_anchor_date") THEN RaiseDate("AttributeError")
    ELSE LET anchor_day  == s._anchor_date.day
             start_month == s._now.month - 1
         IN  IF s._now.day > anchor_day
             THEN date_replace(s._now.year, s._now.month, anchor_day)
             ELSE IF start_month = 0
             THEN date_replace(s._now.year - 1, 12, anchor_day)
             ELSE date_replace(s._now.year, start_month, anchor_day)

\* anchor_date.replace(year=y)
anchor_in_year(s, y) ==
    date_replace(y, s._anchor_date.month, s._anchor_date.day)

\* Faulty variant: the monthly branch never steps back to the previous year.
_get_current_year_start_date_same_year(s) ==
    IF ~hasattr(s, "_anchor_date")
    THEN date_replace(s._now.year, 1, 1)
    ELSE IF s._subscription_interval = "year"
    THEN IF hasattr(s, "_current_period")
         THEN Ok(s._current_period)
         ELSE RaiseDate("AttributeError")
    ELSE anchor_in_year(s, s._now.year)

\* Faulty variant: the monthly branch compares with >= instead of >.
_get_current_year_start_date_not_before(s) ==
    IF ~hasattr(s, "_anchor_date")
    THEN date_replace(s._now.year, 1, 1)
    ELSE IF s._subscription_interval = "year"
    THEN IF hasattr(s, "_current_period")
         THEN Ok(s._current_period)
         ELSE RaiseDate("AttributeError")
    ELSE LET this_year == anchor_in_year(s, s._now.year)
         IN  IF this_year.exc # "none" THEN this_year
             ELSE IF DateLE(s._now, this_year.val)
             THEN anchor_in_year(s, s._now.year - 1)
             ELSE anchor_in_year(s, s._now.year)

_get_current_year_start_date(s) ==
    IF ~hasattr(s, "_anchor_date")
    THEN \* No subscription info, just use the first day of current year
         date_replace(s._now.year, 1, 1)
    ELSE IF ~hasattr(s, "_subscription_interval") THEN RaiseDate("AttributeError")
    ELSE IF s._subscription_interval = "year"
    THEN IF hasattr(s, "_current_period")
         THEN Ok(s._current_period)
         ELSE RaiseDate("AttributeError")
    ELSE LET this_year == anchor_in_year(s, s._now.year)
         IN  IF this_year.exc # "none" THEN this_year
             ELSE IF DateLT(s._now, this_year.val)
             THEN anchor_in_year(s, s._now.year - 1)
             ELSE anchor_in_year(s, s._now.year)

----------------------------------------------------------------------------
(* Data stores read by the serializers *)

Users == {"u1", "u2"}

AssetIds == {"a1", "a2"}

\* organization_id query parameter: "" when absent, an existing id, an unknown id
OrganizationIds == {"", "org1", "org404"}

Organization_objects == { [id |-> "org1", owner |-> "u1"] }

OrganizationUser_objects ==
    { [organization |-> "org1", user |-> "u1"],
      [organization |-> "org1", user |-> "u2"] }

Subscription_objects ==
    { Subscription("org1", "active", "month", Date(2024, 1, 20), Date(2024, 2, 20)) }

\* One form per asset, linked by kpi_asset_uid.
KobocatXForm_objects ==
    { [id |-> "x1", kpi_asset_uid |-> "a1", attachment_storage_bytes |-> 100],
      [id |-> "x2", kpi_asset_uid |-> "a2", attachment_storage_bytes |-> 20] }

\* The asset tables the model starts from: a1 belongs to u1, a2 to either user.
AssetTables ==
    { t \in [AssetIds -> [owner : Users, asset_type : {"survey", "template"},
                          has_backend : BOOLEAN]] : t["a1"].owner = "u1" }

\* Rows the daily submission counter table may hold.
DailyCounterRows ==
    { [xform |-> "x1", date |-> Date(2023, 11, 5),  counter |-> 1],
      [xform |-> "x1", date |-> Date(2024, 1, 10),  counter |-> 2],
      [xform |-> "x1", date |-> Date(2024, 2, 10),  counter |-> 4],
      [xform |-> "x2", date |-> Date(2024, 12, 5),  counter |-> 8] }

\* Rows the NLP usage counter table may hold.
NLPCounterRows ==
    { [asset_id |-> "a1", date |-> Date(2024, 2, 10),
       total_asr_seconds |-> 3, total_mt_characters |-> 5],
      [asset_id |-> "a2", date |-> Date(2024, 1, 10),
       total_asr_seconds |-> 7, total_mt_characters |-> 11] }

\* Dates on which the module may be imported (the process starts).
StartDates == { Date(2024, 2, 28), Date(2024, 12, 30) }

----------------------------------------------------------------------------
(* SQL aggregates *)

\* A nullable SQL integer.
SqlNull == [null |-> TRUE, value |-> 0]

SqlInt(n) == [null |-> FALSE, value |-> n]

RECURSIVE Total(_, _)
Total(rows, column) ==
    IF rows = {} THEN 0
    ELSE LET r == CHOOSE x \in rows : TRUE
         IN  r[column] + Total(rows \ {r}, column)

\* SUM(column) over rows: NULL when there is no row
Sum(rows, column) ==
    IF rows = {} THEN SqlNull ELSE SqlInt(Total(rows, column))

\* COALESCE(v, default)
Coalesce(v, default) == IF v.null THEN default ELSE v.value

----------------------------------------------------------------------------
(* ServiceUsageSerializer: user set, subscription, aggregation *)

OkObject(s) == [exc |-> "none", val |-> s]

RaiseFrom(s, e) == [exc |-> e, val |-> s]

\* The argument self.request.user is evaluated before the query is built; the
\* instance has no attribute "request".  Building the two filter() querysets
\* raises nothing, so the except branch (Http404) has no path into it.
_get_organization_details(s, organization_id) ==
    IF organization_id = "" THEN OkObject(s)
    ELSE IF ~hasattr(s, "request") THEN RaiseFrom(s, "AttributeError")
    ELSE LET organization ==
                 { o \in Organization_objects :
                     o.owner = s.request.user /\ o.id = organization_id }
             organization_users ==
                 { ou \in OrganizationUser_objects :
                     \E o \in organization : ou.organization = o.id }
             s1 == setattr(s, "_users", { ou.user : ou \in organization_users })
             subscriptions ==
                 { sub \in Subscription_objects :
                     /\ sub.status \in {"active", "past_due", "trialing"}
                     /\ \E o \in organization : sub.organization = o.id }
         IN  IF subscriptions = {} THEN OkObject(s1)
             ELSE OkObject(store_subscription(s1, CHOOSE sub \in subscriptions : TRUE))

\* A QuerySet is lazy.  rows are the rows its WHERE clause keeps.  known_empty
\* says that compiling the query raises EmptyResultSet: an __in lookup over an
\* empty Python list does, and so does an __in lookup over a queryset that
\* does.  Such a queryset is evaluated to no rows without a statement being run.
QuerySet(rows, known_empty) == [rows |-> rows, known_empty |-> known_empty]

\* list(queryset)
evaluate(qs) == IF qs.known_empty THEN {} ELSE qs.rows

\* Asset.objects...filter(owner__in=self._users, asset_type=ASSET_TYPE_SURVEY,
\*                        _deployment_data__has_key='backend')
user_assets(s) ==
    QuerySet({ a \in AssetIds :
                 /\ assets[a].owner \in s._users
                 /\ assets[a].asset_type = "survey"
                 /\ assets[a].has_backend },
             s._users = {})

\* KobocatXForm.objects.filter(kpi_asset_uid__in=uids), uids a Python list
xforms_of(uids) ==
    QuerySet({ x \in KobocatXForm_objects : x.kpi_asset_uid \in uids },
             uids = {})

\* xforms.aggregate(bytes_sum=Coalesce(Sum('attachment_storage_bytes'), 0))
\* ['bytes_sum']: None when the queryset is known empty and no statement is run
aggregate_bytes_sum(xforms) ==
    IF xforms.known_empty THEN SqlNull
    ELSE SqlInt(Coalesce(Sum(xforms.rows, "attachment_storage_bytes"), 0))

\* value or 0
or_zero(v) == IF v.null THEN 0 ELSE v.value

\* The chained queryset is one SQL statement: every filter() of the chain is a
\* conjunct of its WHERE clause and every annotation is an expression of its
\* select list, evaluated over the rows the whole WHERE clause keeps.  Func(...,
\* function='Sum') is not an aggregate to the ORM, so no GROUP BY is emitted and
\* the statement, when it is run, yields exactly one row.  [0] reads the first
\* row and raises IndexError when the queryset evaluates to no rows.
submission_count(s, xforms) ==
    LET matching ==
            { c \in daily_counters :
                /\ c.xform \in { x.id : x \in xforms.rows }
                /\ DateBetween(c.date, s._current_year_start, s._now)
                /\ DateBetween(c.date, s._current_month_start, s._now) }
        counter_sum == Coalesce(Sum(matching, "counter"), 0)
    IN  IF xforms.known_empty THEN [exc |-> "IndexError", val |-> EmptyDict]
        ELSE Ok([ all_time      |-> counter_sum,
                  current_year  |-> counter_sum,
                  current_month |-> counter_sum ])

nlp_tracking(s, assets_qs) ==
    LET matching ==
            { c \in nlp_counters :
                /\ c.asset_id \in assets_qs.rows
                /\ DateBetween(c.date, s._current_year_start, s._now)
                /\ DateBetween(c.date, s._current_month_start, s._now) }
        asr_seconds_sum   == Coalesce(Sum(matching, "total_asr_seconds"), 0)
        mt_characters_sum == Coalesce(Sum(matching, "total_mt_characters"), 0)
    IN  IF assets_qs.known_empty THEN [exc |-> "IndexError", val |-> EmptyDict]
        ELSE Ok([ asr_seconds_all_time         |-> asr_seconds_sum,
                  asr_seconds_current_month    |-> asr_seconds_sum,
                  asr_seconds_current_year     |-> asr_seconds_sum,
                  mt_characters_all_time       |-> mt_characters_sum,
                  mt_characters_current_month  |-> mt_characters_sum,
                  mt_characters_current_year   |-> mt_characters_sum ])

_get_per_asset_usage(s0, user, organization_id) ==
    LET s1  == setattr(s0, "_users", {user})
        org == _get_organization_details(s1, organization_id)
    IN  IF org.exc # "none" THEN org
        ELSE
        LET s2     == org.val
            ua     == user_assets(s2)
            xforms == xforms_of(evaluate(ua))
            s3     == setattr(s2, "_total_storage_bytes",
                              or_zero(aggregate_bytes_sum(xforms)))
            month  == _get_current_month_start_date(s3)
        IN  IF month.exc # "none" THEN RaiseFrom(s3, month.exc)
            ELSE
            LET s4   == setattr(s3, "_current_month_start", month.val)
                year == _get_current_year_start_date(s4)
            IN  IF year.exc # "none" THEN RaiseFrom(s4, year.exc)
                ELSE
                LET s5     == setattr(s4, "_current_year_start", year.val)
                    counts == submission_count(s5, xforms)
                IN  IF counts.exc # "none" THEN RaiseFrom(s5, counts.exc)
                    ELSE
                    LET s6  == setattr(s5, "_total_submission_count", counts.val)
                        nlp == nlp_tracking(s6, ua)
                    IN  IF nlp.exc # "none" THEN RaiseFrom(s6, nlp.exc)
                        ELSE OkObject(setattr(s6, "_total_nlp_usage", nlp.val))

\* The five SerializerMethodFields.
ServiceUsageSerializer_data(s) ==
    [ total_nlp_usage        |-> s._total_nlp_usage,
      total_storage_bytes    |-> s._total_storage_bytes,
      total_submission_count |-> s._total_submission_count,
      current_month_start    |-> s._current_month_start,
      current_year_start     |-> s._current_year_start ]

----------------------------------------------------------------------------
(* AssetUsageSerializer *)

\* Asset.has_deployment
has_deployment(a) == assets[a].has_backend

\* asset.deployment.submission_count_since_date(start_date): the daily counters
\* of the asset's form from start_date on, all of them when start_date is None
submission_count_since_date(a, start_date) ==
    Total({ c \in daily_counters :
              /\ c.xform \in { x.id : x \in xforms_of({a}).rows }
              /\ (start_date = NoDate \/ DateLE(start_date, c.date)) },
          "counter")

\* asset.deployment.attachment_storage_bytes
attachment_storage_bytes(a) ==
    Total(xforms_of({a}).rows, "attachment_storage_bytes")

\* KobocatDeploymentBackend.nlp_tracking_data(asset_ids, start_date)
nlp_tracking_data(asset_ids, start_date) ==
    LET rows == { c \in nlp_counters :
                    /\ c.asset_id \in asset_ids
                    /\ (start_date = NoDate \/ DateLE(start_date, c.date)) }
    IN  [ total_nlp_asr_seconds   |-> Total(rows, "total_asr_seconds"),
          total_nlp_mt_characters |-> Total(rows, "total_mt_characters") ]

_get_nlp_tracking_data(a, start_date) ==
    IF ~has_deployment(a)
    THEN [ total_nlp_asr_seconds |-> 0, total_nlp_mt_characters |-> 0 ]
    ELSE nlp_tracking_data({a}, start_date)

\* The SerializerMethodFields of AssetUsageSerializer for one asset; now is the
\* class attribute _now.
AssetUsageSerializer_data(now, a) ==
    LET month_start == date_replace(now.year, now.month, 1).val
        year_start  == date_replace(now.year, 1, 1).val
    IN  [ nlp_usage_current_month |-> _get_nlp_tracking_data(a, month_start),
          nlp_usage_current_year  |-> _get_nlp_tracking_data(a, year_start),
          nlp_usage_all_time      |-> _get_nlp_tracking_data(a, NoDate),
          storage_bytes |->
              IF ~has_deployment(a) THEN 0 ELSE attachment_storage_bytes(a),
          submission_count_current_month |->
              IF ~has_deployment(a) THEN 0
              ELSE submission_count_since_date(a, month_start),
          submission_count_current_year |->
              IF ~has_deployment(a) THEN 0
              ELSE submission_count_since_date(a, year_start),
          submission_count_all_time |->
              IF ~has_deployment(a) THEN 0
              ELSE submission_count_since_date(a, NoDate) ]

----------------------------------------------------------------------------
(* Requests and the calendar *)

NoObject == << >>

NoResponse ==
    [ serializer      |-> "none",
      requested_on    |-> NoDate,
      now             |-> NoDate,
      user            |-> "",
      organization_id |-> "",
      asset           |-> "",
      data            |-> EmptyDict ]

\* Both class bodies evaluate timezone.now().date() once, when the module is
\* imported.
Init ==
    /\ today \in StartDates
    /\ elapsed = 0
    /\ AssetUsageSerializer__now = today
    /\ ServiceUsageSerializer__now = today
    /\ assets \in AssetTables
    /\ daily_counters \in SUBSET DailyCounterRows
    /\ nlp_counters \in SUBSET NLPCounterRows
    /\ self = NoObject
    /\ outcome = "none"
    /\ response = NoResponse

\* Midnight passes.
AdvanceDay ==
    /\ elapsed < MaxDaysElapsed
    /\ today' = NextDay(today)
    /\ elapsed' = elapsed + 1
    /\ UNCHANGED << AssetUsageSerializer__now, ServiceUsageSerializer__now,
                    assets, daily_counters, nlp_counters, self, outcome, response >>

\* ServiceUsageSerializer(user, context={'request': request}).data
ServiceUsageRequest(user, organization_id) ==
    LET r == _get_per_asset_usage(
                 new_ServiceUsageSerializer(ServiceUsageSerializer__now),
                 user, organization_id)
    IN  /\ self' = r.val
        /\ outcome' = IF r.exc = "none" THEN "ok" ELSE r.exc
        /\ response' =
               [ serializer      |-> "ServiceUsageSerializer",
                 requested_on    |-> today,
                 now             |-> ServiceUsageSerializer__now,
                 user            |-> user,
                 organization_id |-> organization_id,
                 asset           |-> "",
                 data            |-> IF r.exc = "none"
                                     THEN ServiceUsageSerializer_data(r.val)
                                     ELSE EmptyDict ]
        /\ UNCHANGED << today, elapsed, AssetUsageSerializer__now,
                        ServiceUsageSerializer__now, assets, daily_counters,
                        nlp_counters >>

\* AssetUsageSerializer(asset).data
AssetUsageRequest(a) ==
    /\ self' = NoObject
    /\ outcome' = "ok"
    /\ response' =
           [ serializer      |-> "AssetUsageSerializer",
             requested_on    |-> today,
             now             |-> AssetUsageSerializer__now,
             user            |-> "",
             organization_id |-> "",
             asset           |-> a,
             data            |-> AssetUsageSerializer_data(AssetUsageSerializer__now, a) ]
    /\ UNCHANGED << today, elapsed, AssetUsageSerializer__now,
                    ServiceUsageSerializer__now, assets, daily_counters,
                    nlp_counters >>

Next ==
    \/ AdvanceDay
    \/ \E user \in Users, organization_id \in OrganizationIds :
           ServiceUsageRequest(user, organization_id)
    \/ \E a \in AssetIds : AssetUsageRequest(a)

Spec == Init /\ [][Next]_vars

----------------------------------------------------------------------------
(* The window resolver on its own: the two methods applied to an instance  *)
(* holding the attributes _get_organization_details leaves on it.          *)

ResolverDates ==
    { Date(y, m, d) : y \in Years, m \in SampleMonths, d \in SampleDays }
        \cap { dt \in [year : Years, month : SampleMonths, day : SampleDays] :
                 IsValidDate(dt.year, dt.month, dt.day) }

\* Every subscription the resolver is tried on: either interval, any anchor,
\* any period start that is not after now.
Subscriptions(now) ==
    { Subscription("org1", "active", i, a, p) :
        i \in {"month", "year"},
        a \in ResolverDates,
        p \in { d \in ResolverDates : DateLE(d, now) } }

ResolverInit ==
    /\ today \in ResolverDates
    /\ elapsed = 0
    /\ AssetUsageSerializer__now = today
    /\ ServiceUsageSerializer__now = today
    /\ assets = [a \in AssetIds |->
                   [owner |-> "u1", asset_type |-> "survey", has_backend |-> TRUE]]
    /\ daily_counters = {}
    /\ nlp_counters = {}
    /\ \/ self = new_ServiceUsageSerializer(ServiceUsageSerializer__now)
       \/ \E subscription \in Subscriptions(today) :
              self = store_subscription(
                         new_ServiceUsageSerializer(ServiceUsageSerializer__now),
                         subscription)
    /\ outcome = "none"
    /\ response = NoResponse

\* self._current_month_start = self._get_current_month_start_date()
ResolveMonthStart ==
    /\ outcome = "none"
    /\ self._current_month_start = NoDate
    /\ LET month == _get_current_month_start_date(self)
       IN  IF month.exc # "none"
           THEN /\ outcome' = month.exc
                /\ self' = self
           ELSE /\ outcome' = outcome
                /\ self' = setattr(self, "_current_month_start", month.val)
    /\ UNCHANGED << today, elapsed, AssetUsageSerializer__now,
                    ServiceUsageSerializer__now, assets, daily_counters,
                    nlp_counters, response >>

\* self._current_year_start = self._get_current_year_start_date()
ResolveYearStart ==
    /\ outcome = "none"
    /\ self._current_month_start # NoDate
    /\ LET year == _get_current_year_start_date(self)
       IN  IF year.exc # "none"
           THEN /\ outcome' = year.exc
                /\ self' = self
           ELSE /\ outcome' = "ok"
                /\ self' = setattr(self, "_current_year_start", year.val)
    /\ UNCHANGED << today, elapsed, AssetUsageSerializer__now,
                    ServiceUsageSerializer__now, assets, daily_counters,
                    nlp_counters, response >>

ResolverNext ==
    \/ ResolveMonthStart
    \/ ResolveYearStart

SpecResolver == ResolverInit /\ [][ResolverNext]_vars

----------------------------------------------------------------------------
(* Properties of the window resolver (checked under SpecResolver) *)

HasSubscription == hasattr(self, "_anchor_date")

FirstOfMonth(d) == Date(d.year, d.month, 1)

FirstOfYear(d) == Date(d.year, 1, 1)

\* C1: every window start the resolver has computed is on or before now, for
\* no subscription and for monthly and yearly subscriptions with any anchor
\* date and any current period start that is not after now.
C1_WindowStartsNotAfterNow ==
    /\ self._current_month_start # NoDate
           => DateLE(self._current_month_start, self._now)
    /\ self._current_year_start # NoDate
           => DateLE(self._current_year_start, self._now)

\* A monthly subscription whose anchor falls later in the year than now: the
\* year window was taken from the previous year.
C1_Witness ==
    /\ outcome = "ok"
    /\ HasSubscription
    /\ self._subscription_interval = "month"
    /\ DateLT(self._now, Date(self._now.year, self._anchor_date.month,
                              self._anchor_date.day))
    /\ self._current_year_start.year = self._now.year - 1

\* C2: without a subscription the resolver raises nothing, the month window
\* starts at now with day 1 and the year window at now with day 1, month 1.
C2_DefaultWindows ==
    ~HasSubscription =>
        /\ outcome \in {"none", "ok"}
        /\ self._current_month_start # NoDate
               => self._current_month_start = FirstOfMonth(self._now)
        /\ outcome = "ok"
               => /\ self._current_month_start = FirstOfMonth(self._now)
                  /\ self._current_year_start = FirstOfYear(self._now)

C2_Witness ==
    /\ ~HasSubscription
    /\ outcome = "ok"
    /\ self._now = Date(2024, 3, 15)
    /\ self._current_month_start = Date(2024, 3, 1)
    /\ self._current_year_start = Date(2024, 1, 1)

\* C3: with a subscription whose interval equals the window's unit the window
\* start is current_period_start verbatim: the month window for
\* interval=month, the year window for interval=year.
C3_PeriodStartVerbatim ==
    (HasSubscription /\ outcome # "none") =>
        /\ self._subscription_interval = "month"
               => self._current_month_start = self._period_start
        /\ self._subscription_interval = "year"
               => /\ outcome = "ok"
                  /\ self._current_year_start = self._period_start

\* The month window start the yearly rule names for anchor day d.
AnchoredMonthStart(now, d) ==
    IF now.day > d THEN Date(now.year, now.month, d)
    ELSE IF now.month = 1 THEN Date(now.year - 1, 12, d)
    ELSE Date(now.year, now.month - 1, d)

\* C4: with a yearly subscription the month window starts on the anchor day of
\* this month when now.day is past it, and on the anchor day of the previous
\* month (December of the previous year before January) otherwise.
C4_YearlyMonthWindow ==
    (HasSubscription /\ outcome # "none" /\ self._subscription_interval = "year") =>
        LET expected == AnchoredMonthStart(self._now, self._anchor_date.day)
        IN  IsValidDate(expected.year, expected.month, expected.day)
                => self._current_month_start = expected

\* C5: with a monthly subscription the year window starts at anchor_date moved
\* to now.year when that date is on or before now, and at anchor_date moved to
\* now.year - 1 when it is strictly after now (wherever the moved date exists).
C5_MonthlyYearWindow ==
    (HasSubscription /\ outcome # "none" /\ self._subscription_interval = "month") =>
        LET a         == self._anchor_date
            now       == self._now
            this_year == Date(now.year, a.month, a.day)
            last_year == Date(now.year - 1, a.month, a.day)
        IN  /\ (IsValidDate(now.year, a.month, a.day) /\ DateLE(this_year, now))
                   => /\ outcome = "ok"
                      /\ self._current_year_start = this_year
            /\ (/\ IsValidDate(now.year, a.month, a.day)
                /\ DateLT(now, this_year)
                /\ IsValidDate(now.year - 1, a.month, a.day))
                   => /\ outcome = "ok"
                      /\ self._current_year_start = last_year

C5_Witness ==
    /\ outcome = "ok"
    /\ HasSubscription
    /\ self._subscription_interval = "month"
    /\ self._now = Date(2024, 3, 15)
    /\ self._anchor_date = Date(2024, 1, 20)
    /\ self._current_year_start = Date(2024, 1, 20)

\* C9: an anchor day that does not exist in the target month or year never
\* makes window resolution fail building the date (no ValueError).
C9_NoFailureOnMissingAnchorDay ==
    (HasSubscription /\ self._anchor_date.day >= 29) => outcome # "ValueError"

----------------------------------------------------------------------------
(* Properties of the requests (checked under Spec) *)

ServiceResponse == response.serializer = "ServiceUsageSerializer"

\* The deployed survey assets owned by a set of users.
DeployedSurveysOf(users) ==
    { a \in AssetIds :
        /\ assets[a].owner \in users
        /\ assets[a].asset_type = "survey"
        /\ assets[a].has_backend }

\* C6: a request whose organization_id names no existing organization fails
\* with Http404.
C6_UnknownOrganizationIsNotFound ==
    (/\ ServiceResponse
     /\ response.organization_id # ""
     /\ \A o \in Organization_objects : o.id # response.organization_id)
        => outcome = "Http404"

\* C7: when the resolved user set owns no deployed survey asset the request
\* completes, storage, the three submission counts and the six NLP numbers
\* are 0, and the windows are the default ones.
C7_NoAssetsAllZero ==
    (/\ ServiceResponse
     /\ response.organization_id = ""
     /\ DeployedSurveysOf({response.user}) = {})
        => /\ outcome = "ok"
           /\ response.data.total_storage_bytes = 0
           /\ response.data.total_submission_count =
                  [all_time |-> 0, current_year |-> 0, current_month |-> 0]
           /\ response.data.total_nlp_usage =
                  [ asr_seconds_all_time         |-> 0,
                    asr_seconds_current_month    |-> 0,
                    asr_seconds_current_year     |-> 0,
                    mt_characters_all_time       |-> 0,
                    mt_characters_current_month  |-> 0,
                    mt_characters_current_year   |-> 0 ]
           /\ response.data.current_month_start = FirstOfMonth(response.now)
           /\ response.data.current_year_start = FirstOfYear(response.now)

\* C8: all_time, current_year and current_month are independent range sums over
\* the records of the enumerated forms/assets: all of them, those dated in
\* [current_year_start, now], those dated in [current_month_start, now].
C8_IndependentRangeSums ==
    (ServiceResponse /\ outcome = "ok") =>
        LET ua      == DeployedSurveysOf(self._users)
            xf      == { x.id : x \in xforms_of(ua).rows }
            daily   == { c \in daily_counters : c.xform \in xf }
            nlp     == { c \in nlp_counters : c.asset_id \in ua }
            InYear(rows)  ==
                { c \in rows : DateBetween(c.date, self._current_year_start, self._now) }
            InMonth(rows) ==
                { c \in rows : DateBetween(c.date, self._current_month_start, self._now) }
            counts  == response.data.total_submission_count
            usage   == response.data.total_nlp_usage
        IN  /\ counts.all_time      = Total(daily, "counter")
            /\ counts.current_year  = Total(InYear(daily), "counter")
            /\ counts.current_month = Total(InMonth(daily), "counter")
            /\ usage.asr_seconds_all_time      = Total(nlp, "total_asr_seconds")
            /\ usage.asr_seconds_current_year  = Total(InYear(nlp), "total_asr_seconds")
            /\ usage.asr_seconds_current_month = Total(InMonth(nlp), "total_asr_seconds")
            /\ usage.mt_characters_all_time      = Total(nlp, "total_mt_characters")
            /\ usage.mt_characters_current_year  = Total(InYear(nlp), "total_mt_characters")
            /\ usage.mt_characters_current_month = Total(InMonth(nlp), "total_mt_characters")

\* C10: every invocation of either serializer that returns uses now = today's
\* date at the time of the invocation, and the default window starts of a
\* service usage response are the first day of that day's month and year.
C10_NowIsTodayAtInvocation ==
    /\ (response.serializer # "none" /\ outcome = "ok")
           => response.now = response.requested_on
    /\ (ServiceResponse /\ outcome = "ok" /\ ~HasSubscription)
           => /\ response.data.current_month_start = FirstOfMonth(response.requested_on)
              /\ response.data.current_year_start = FirstOfYear(response.requested_on)

====
